---- MODULE Spec2Model ----
(***************************************************************************)
(* Model of the download session of seaf-share (src/src/main.rs): the      *)
(* traversal loop of main over a double-ended queue of remote entries and  *)
(* Downloader::download_entry, the per-file conflict handling.             *)
(*                                                                         *)
(* Remote paths are sequences of path components ("/A/2/x" is              *)
(* <<"A","2","x">>); a local path is the component sequence below the      *)
(* output directory (options.output()), which exists and is <<>>.          *)
(***************************************************************************)
EXTENDS Integers, Sequences, FiniteSets, TLC

VARIABLES
    pc,      \* position of main: "start", "loop", "done", "aborted", "panicked"
    opt,     \* the parsed DownloadOptions plus the resolved start path
    queue,   \* main's VecDeque of pending entries
    fs,      \* the local filesystem below the output directory
    tree,    \* the listings the server has given: directory path -> entries
    log,     \* what each iteration of the while loop did, in order
    listed,  \* the directory paths whose listing was requested, in order
    faults,  \* number of failing server replies so far
    run,     \* number of the current invocation of the program
    prev,    \* how the previous invocation ended and what it did
    url,     \* the URL on the command line
    link,    \* the ShareLink parsed from it
    dirent_list,  \* the records of a listing as the server sent them
    decoded  \* what Client::entries made of them

vars == <<pc, opt, queue, fs, tree, log, listed, faults, run, prev, url, link,
          dirent_list, decoded>>

----------------------------------------------------------------------------
(* Bounds of the model. *)

MaxEntries == 3  \* entries of the remote tree below the start directory
MaxSize == 2     \* size of a remote file in bytes
MaxLen == 3      \* length of a local file that exists before the session
MaxFaults == 1   \* failing server replies in one behaviour
MaxRuns == 2     \* invocations of the program on the same output directory
MaxSegs == 3     \* segments of the path of a URL
MaxRecords == 2  \* records of a listing that is decoded

----------------------------------------------------------------------------
(* Sequences. *)

Front(s) == SubSeq(s, 1, Len(s) - 1)

Last(s) == s[Len(s)]

Reverse(s) == [i \in 1..Len(s) |-> s[Len(s) + 1 - i]]

IsPrefix(s, t) == Len(s) <= Len(t) /\ SubSeq(t, 1, Len(s)) = s

Min(a, b) == IF a < b THEN a ELSE b

SeqsUpTo(S, n) == UNION {[1..k -> S] : k \in 0..n}

RECURSIVE Flatten(_)
Flatten(ss) == IF ss = <<>> THEN <<>> ELSE Head(ss) \o Flatten(Tail(ss))

----------------------------------------------------------------------------
(* Option values (src/src/cli.rs). *)

Recursive == {"None", "Dfs", "Bfs"}

ConflictAction == {"Skip", "Check", "Continue", "Overwrite"}

----------------------------------------------------------------------------
(* Paths and glob patterns.  glob::Pattern::matches_path matches the whole *)
(* path string with the default MatchOptions, under which "*" matches any  *)
(* run of characters and "?" any one character, "/" included.              *)

PathStr(p) == Flatten([i \in 1..Len(p) |-> <<"/", p[i]>>])

RECURSIVE GlobMatch(_, _)
GlobMatch(pat, s) ==
    IF pat = <<>> THEN s = <<>>
    ELSE IF Head(pat) = "*"
         THEN \E k \in 0..Len(s) : GlobMatch(Tail(pat), SubSeq(s, k + 1, Len(s)))
    ELSE IF s = <<>> THEN FALSE
    ELSE (Head(pat) = "?" \/ Head(pat) = Head(s)) /\ GlobMatch(Tail(pat), Tail(s))

matches_path(pat, p) == GlobMatch(pat, PathStr(p))

(* Path::strip_prefix: the rest of p below base, or an error. *)
StripOk(p, base) == IsPrefix(base, p)

strip_prefix(p, base) == SubSeq(p, Len(base) + 1, Len(p))

----------------------------------------------------------------------------
(* Remote entries (DirEntry) and the server's data.                        *)

TS == "remote"   \* the last-modified timestamp the server reports

DirEntryDir(p) == [path |-> p, dir |-> TRUE, size |-> 0, mtime |-> TS]

DirEntryFile(p, sz, mt) == [path |-> p, dir |-> FALSE, size |-> sz, mtime |-> mt]

(* The bytes of the remote file behind an entry: byte i is i. *)
Content(e) == [i \in 1..e.size |-> i]

----------------------------------------------------------------------------
(* The local filesystem: a function from the local paths that exist to     *)
(* nodes.  The output directory <<>> always exists and is a directory.     *)

Node(k, d, m) == [kind |-> k, data |-> d, mtime |-> m]

Absent == Node("absent", <<>>, "none")

DirNode == Node("dir", <<>>, "old")

NodeAt(f, p) == IF p \in DOMAIN f THEN f[p] ELSE Absent

Put(f, p, n) == [q \in DOMAIN f \cup {p} |-> IF q = p THEN n ELSE f[q]]

IsDirAt(f, p) == p = <<>> \/ NodeAt(f, p).kind = "dir"

(* std::fs::exists *)
exists(f, p) == p = <<>> \/ p \in DOMAIN f

Prefixes(p) == {SubSeq(p, 1, k) : k \in 1..Len(p)}

(* std::fs::create_dir_all: fails when a component of p is not a directory *)
create_dir_all_ok(f, p) == \A q \in Prefixes(p) : q \in DOMAIN f => f[q].kind = "dir"

(* A faulty variant of create_dir_all: no directory is created. *)
create_dir_all_none(f, p) == f

create_dir_all(f, p) ==
    [q \in DOMAIN f \cup Prefixes(p) |-> IF q \in DOMAIN f THEN f[q] ELSE DirNode]

(* std::fs::create_dir: fails when p exists or its parent is no directory *)
create_dir_ok(f, p) == ~exists(f, p) /\ IsDirAt(f, Front(p))

create_dir(f, p) == Put(f, p, DirNode)

----------------------------------------------------------------------------
(* Requests to the server and its replies.  A reply has a status ("err"    *)
(* for a transport error or an error status, which ureq's call() returns   *)
(* as Err) and a body stream that either ends normally or breaks after     *)
(* n >= 1 bytes.                                                           *)

GetRequest(e) == [kind |-> "get", path |-> e.path, first |-> 0, last |-> 0]

(* A faulty variant of RangeRequest: the header names range.end, not range.end - 1. *)
RangeRequestToEnd(e, start, end) ==
    [kind |-> "range", path |-> e.path, first |-> start, last |-> end]

RangeRequest(e, start, end) ==
    [kind |-> "range", path |-> e.path, first |-> start, last |-> end - 1]

Reply(st, brk, k) == [status |-> st, broken |-> brk, n |-> k]

NoReply == Reply("none", FALSE, 0)

GoodReply(req) == Reply(IF req.kind = "range" THEN "206" ELSE "200", FALSE, 0)

(* A failing reply: a transport error, an error status or a broken body.   *)
(* A server without range support answers a range request with 200 and     *)
(* the whole file, which is no failure.                                    *)
IsFault(rep) == rep.status = "err" \/ rep.broken

(* The replies the server can give to a request. *)
RepliesTo(req) ==
    {GoodReply(req), Reply("err", FALSE, 0)}
        \cup {Reply(GoodReply(req).status, TRUE, k) : k \in 1..(MaxSize - 1)}
        \cup (IF req.kind = "range" THEN {Reply("200", FALSE, 0)} ELSE {})

(* The body the server sends: the bytes first..last of the file for a      *)
(* partial-content reply, the whole file otherwise.                        *)
Body(e, req, rep) ==
    IF rep.status = "206"
    THEN SubSeq(Content(e), req.first + 1, Min(req.last + 1, e.size))
    ELSE Content(e)

(* std::io::copy of the body into the file: what arrives before the        *)
(* stream ends or breaks.                                                  *)
Copied(body, rep) == IF rep.broken THEN SubSeq(body, 1, Min(rep.n, Len(body))) ELSE body

(* A faulty variant of Written: the bytes replace the contents. *)
Written_replace(n, bytes) ==
    IF bytes = <<>> THEN n ELSE Node("file", bytes, "now")

Written(n, bytes) ==
    IF bytes = <<>> THEN n ELSE Node("file", n.data \o bytes, "now")

----------------------------------------------------------------------------
(* Downloader (src/src/main.rs).  Each operation yields res, one of "ok",  *)
(* "err" (an Err result) and "panic", and the file node it leaves.         *)

(* A faulty variant of conflict_file_options: Skip opens like Overwrite. *)
conflict_file_options_skip_truncates(conflict) ==
    IF conflict \in {"Skip", "Overwrite"}
    THEN [read |-> FALSE, write |-> TRUE, append |-> FALSE, truncate |-> TRUE]
    ELSE IF conflict = "Check"
         THEN [read |-> TRUE, write |-> TRUE, append |-> FALSE, truncate |-> FALSE]
    ELSE [read |-> FALSE, write |-> FALSE, append |-> TRUE, truncate |-> FALSE]

conflict_file_options(conflict) ==
    CASE conflict = "Skip" ->
            [read |-> TRUE, write |-> FALSE, append |-> FALSE, truncate |-> FALSE]
      [] conflict = "Check" ->
            [read |-> TRUE, write |-> TRUE, append |-> FALSE, truncate |-> FALSE]
      [] conflict = "Continue" ->
            [read |-> FALSE, write |-> FALSE, append |-> TRUE, truncate |-> FALSE]
      [] conflict = "Overwrite" ->
            [read |-> FALSE, write |-> TRUE, append |-> FALSE, truncate |-> TRUE]

(* A faulty variant of open: truncate(true) is not honoured. *)
open_keeps(o, n) == n

(* OpenOptions::open of an existing node: a directory opens read-only      *)
(* only; truncate empties a file.                                          *)
open_ok(o, n) == n.kind = "file" \/ (n.kind = "dir" /\ ~o.write /\ ~o.append)

open(o, n) == IF o.truncate /\ n.kind = "file" THEN Node("file", <<>>, "now") ELSE n

download(n, e, rep) ==
    IF rep.status = "err" THEN [res |-> "err", node |-> n]
    ELSE [res |-> IF rep.broken THEN "err" ELSE "ok",
          node |-> Written(n, Copied(Body(e, GetRequest(e), rep), rep))]

download_range(n, e, start, end, rep) ==
    IF rep.status = "err" THEN [res |-> "err", node |-> n]
    ELSE IF rep.status = "206"
         THEN [res |-> IF rep.broken THEN "err" ELSE "ok",
               node |-> Written(n, Copied(Body(e, RangeRequest(e, start, end), rep), rep))]
    ELSE [res |-> "panic", node |-> n]

(* A faulty variant of Behind: start <= end. *)
BehindOrEqual(start, end) == start <= end

(* Continue asks for the rest of the file when start < end. *)
Behind(start, end) == start < end

(* The destination download_entry computes: the output directory joined    *)
(* with the entry's path stripped of the leading "/".                      *)
EntryDest(e) == strip_prefix(e.path, <<>>)

(* The requests download_entry issues for entry e on filesystem f. *)
Requests(e, o, f) ==
    LET dest == EntryDest(e)
        f1 == create_dir_all(f, Front(dest))
        n == NodeAt(f1, dest)
    IN  IF e.dir \/ ~create_dir_all_ok(f, Front(dest)) THEN <<>>
        ELSE IF ~exists(f1, dest) THEN <<GetRequest(e)>>
        ELSE IF ~open_ok(conflict_file_options(o.conflict), n) THEN <<>>
        ELSE IF o.conflict = "Overwrite" THEN <<GetRequest(e)>>
        ELSE IF o.conflict = "Continue" /\ Behind(Len(n.data), e.size)
             THEN <<RangeRequest(e, Len(n.data), e.size)>>
        ELSE <<>>

(* A faulty variant of set_modified: the archive flag is not looked at. *)
set_modified_always(n, e, o) ==
    IF e.mtime # "none" THEN Node(n.kind, n.data, e.mtime) ELSE n

set_modified(n, e, o) ==
    IF o.archive /\ e.mtime # "none" THEN Node(n.kind, n.data, e.mtime) ELSE n

(* download_entry: result is a DownloadResult, "Err" or "Panic". *)
download_entry(e, o, f, rep) ==
    LET dest == EntryDest(e)
        parent == Front(dest)
        f1 == create_dir_all(f, parent)
        Out(r, g) == [result |-> r, fs |-> g, reqs |-> Requests(e, o, f)]
        Done(r, n) == Out(r, Put(f1, dest, set_modified(n, e, o)))
    IN  IF e.dir THEN Out("Skipped", f)
        ELSE IF ~create_dir_all_ok(f, parent) THEN Out("Err", f)
        ELSE IF exists(f1, dest)
             THEN LET action == o.conflict
                      options == conflict_file_options(action)
                      n0 == NodeAt(f1, dest)
                      file == open(options, n0)
                  IN  IF ~open_ok(options, n0) THEN Out("Err", f1)
                      ELSE CASE action = "Skip" -> Done("Skipped", file)
                             [] action = "Check" -> Out("Panic", f1)
                             [] action = "Continue" ->
                                  LET start == Len(file.data)
                                      end == e.size
                                      d == download_range(file, e, start, end, rep)
                                  IN  IF Behind(start, end)
                                      THEN IF d.res = "ok" THEN Done("Continued", d.node)
                                           ELSE Out(IF d.res = "panic" THEN "Panic" ELSE "Err",
                                                    Put(f1, dest, d.node))
                                      ELSE Done("Skipped", file)
                             [] action = "Overwrite" ->
                                  LET d == download(file, e, rep)
                                  IN  IF d.res = "ok" THEN Done("Overwritten", d.node)
                                      ELSE Out("Err", Put(f1, dest, d.node))
             ELSE LET file == Node("file", <<>>, "now")
                      d == download(file, e, rep)
                  IN  IF d.res = "ok" THEN Done("Complete", d.node)
                      ELSE Out("Err", Put(f1, dest, d.node))

----------------------------------------------------------------------------
(* ShareLink::from_url (src/src/main.rs).  A URL is the segments of its    *)
(* path, whether the path ends in "/", and its query pairs; Url::path is   *)
(* the string of characters the patterns are matched against.              *)

HexChars == {"0", "1", "2", "3", "4", "5", "6", "7", "8", "9",
             "a", "b", "c", "d", "e", "f"}

FilesChars == <<"/", "f", "i", "l", "e", "s">>

UrlPath(u) ==
    Flatten([i \in 1..Len(u.segs) |-> <<"/">> \o u.segs[i]])
        \o (IF u.slash THEN <<"/">> ELSE <<>>)

StartsWith(s, i, w) == i + Len(w) - 1 <= Len(s) /\ SubSeq(s, i, i + Len(w) - 1) = w

(* A faulty variant of TokenEnd: [0-9a-f] without the "+". *)
TokenEndOneChar(s, i) == i

(* ([0-9a-f]+) from position i, where a hex character stands: the last     *)
(* position of the longest run of hex characters.                          *)
TokenEnd(s, i) ==
    CHOOSE j \in i..Len(s) :
        /\ \A k \in i..j : s[k] \in HexChars
        /\ j = Len(s) \/ s[j + 1] \notin HexChars

(* The positions where a pattern "/c/([0-9a-f]+)..." matches: the regex is *)
(* not anchored, so a match may start anywhere in the path.                *)
MatchStarts(c, s) ==
    {i \in 1..Len(s) : StartsWith(s, i, <<"/", c, "/">>)
                        /\ i + 3 <= Len(s) /\ s[i + 3] \in HexChars}

(* RegexSet::matches: the indexes of PATTERNS that match somewhere. *)
SetMatches(s) ==
    (IF MatchStarts("d", s) # {} THEN {0} ELSE {})
        \cup (IF MatchStarts("f", s) # {} THEN {1} ELSE {})

(* Regex::captures: the leftmost match, group 1 the token, group 2 the     *)
(* optional "/files" after it.                                             *)
Captures(c, s) ==
    LET i == CHOOSE x \in MatchStarts(c, s) : \A y \in MatchStarts(c, s) : x <= y
        j == TokenEnd(s, i + 3)
    IN  [token |-> SubSeq(s, i + 3, j), files |-> StartsWith(s, j + 1, FilesChars)]

(* url.query_pairs().find_map: the value of the first pair with key "p". *)
QueryP(q) ==
    IF \E i \in 1..Len(q) : q[i][1] = "p"
    THEN q[CHOOSE i \in 1..Len(q) : q[i][1] = "p" /\ \A j \in 1..(i - 1) : q[j][1] # "p"][2]
    ELSE "none"

ShareLink(k, t, p, f) == [kind |-> k, token |-> t, path |-> p, file |-> f]

NoLink == ShareLink("None", <<>>, "none", FALSE)

Unparsed == ShareLink("unparsed", <<>>, "none", FALSE)

from_url(u) ==
    LET s == UrlPath(u)
        result == SetMatches(s)
    IN  IF result = {} THEN NoLink
        ELSE LET idx == CHOOSE x \in result : \A y \in result : x <= y
             IN  IF idx = 0
                 THEN LET captures == Captures("d", s)
                      IN  ShareLink("Directory", captures.token, QueryP(u.query),
                                    captures.files)
                 ELSE ShareLink("SingleFile", Captures("f", s).token, "none", FALSE)

(* The URLs tried: paths of up to MaxSegs segments and a few queries. *)
Segments == {<<"d">>, <<"f">>, <<"a", "b">>, <<"a", "g">>, <<"x">>,
             <<"f", "i", "l", "e", "s">>}

Queries == {<<>>, <<<<"p", "/a/b">>>>, <<<<"p", "/a/b.txt">>>>,
            <<<<"mode", "list">>, <<"p", "/a/b">>>>, <<<<"p", "/a/b">>, <<"p", "/c">>>>}

Urls == [segs : SeqsUpTo(Segments, MaxSegs) \ {<<>>}, slash : BOOLEAN, query : Queries]

(* The URL of the sessions: a directory share, https://host/d/ab/ *)
DirectoryUrl == [segs |-> <<<<"d">>, <<"a", "b">>>>, slash |-> TRUE, query |-> <<>>]

(* The URL of a file in a directory share, https://host/d/ab/files/?p=/A/1 *)
FileUrl == [segs |-> <<<<"d">>, <<"a", "b">>, <<"f", "i", "l", "e", "s">>>>,
            slash |-> TRUE, query |-> <<<<"p", "/A/1">>>>]

----------------------------------------------------------------------------
(* Decoding a listing (src/src/seafile.rs).  A record of the reply has an  *)
(* is_dir flag, "true" or "false", or lacks it ("none"), and may have the  *)
(* fields folder_path and folder_name and the fields file_path and         *)
(* file_name.                                                              *)

JsonBool == {"true", "false"}

Records == [is_dir : JsonBool \cup {"none"}, folder : BOOLEAN, file : BOOLEAN]

(* Deserialize for the untagged enum DirEnt: the first variant all of      *)
(* whose fields are in the record; fields it does not know are ignored.    *)
DirEnt(r) ==
    IF r.is_dir \in JsonBool /\ r.folder THEN "Directory"
    ELSE IF r.is_dir \in JsonBool /\ r.file THEN "File"
    ELSE "fail"

is_file(v) == v = "File"

is_dir(v) == ~is_file(v)

NotDecoded == [ok |-> FALSE, list |-> <<>>, done |-> FALSE]

(* Client::api_dirents: read_json fails when a record cannot be decoded. *)
api_dirents(recs) ==
    IF \E i \in 1..Len(recs) : DirEnt(recs[i]) = "fail"
    THEN [ok |-> FALSE, list |-> <<>>]
    ELSE [ok |-> TRUE, list |-> [i \in 1..Len(recs) |-> DirEnt(recs[i])]]

(* Client::entries: a DirEntry::File or DirEntry::Directory per record. *)
client_entries(recs) ==
    LET dirents == api_dirents(recs)
    IN  [ok |-> dirents.ok,
         list |-> [i \in 1..Len(dirents.list) |-> [dir |-> is_dir(dirents.list[i])]],
         done |-> TRUE]

----------------------------------------------------------------------------
(* The server's listings (Client::entries, src/src/seafile.rs).  The       *)
(* remote tree is whatever the server answers: a directory not listed      *)
(* before gets any listing that keeps the tree within MaxEntries, a        *)
(* directory listed before gets the same listing again.  The k-th entry    *)
(* of a listing is named by a digit at odd depths and a letter at even     *)
(* depths, so that the paths are /A/1, /A/2, /A/2/x, ...                   *)

Digits == <<"1", "2", "3", "4", "5", "6">>

Letters == <<"x", "y", "z", "u", "v", "w">>

ChildName(base, dir, k) ==
    IF (Len(dir) - Len(base)) % 2 = 0 THEN Digits[k] ELSE Letters[k]

Revealed(t) == LET D == DOMAIN t
               IN  IF D = {} THEN 0
                   ELSE LET RECURSIVE Sum(_)
                            Sum(S) == IF S = {} THEN 0
                                      ELSE LET d == CHOOSE x \in S : TRUE
                                           IN  Len(t[d]) + Sum(S \ {d})
                        IN  Sum(D)

Listing(base, dir, kinds) ==
    [k \in 1..Len(kinds) |->
        LET p == Append(dir, ChildName(base, dir, k))
        IN  IF kinds[k] = "dir" THEN DirEntryDir(p) ELSE DirEntryFile(p, MaxSize, TS)]

Listings(t, base, dir) ==
    IF dir \in DOMAIN t THEN {t[dir]}
    ELSE {Listing(base, dir, kinds) :
            kinds \in SeqsUpTo({"file", "dir"}, MaxEntries - Revealed(t))}

----------------------------------------------------------------------------
(* The session: the Download arm of main (src/src/main.rs).                *)

(* --exclude: nothing, or "*/2" and "*x". *)
ExcludeSets == {{}, {<<"*", "/", "2">>, <<"*", "x">>}}

(* What the output directory holds before the first invocation: nothing,   *)
(* or a directory named 1.                                                 *)
OutputStates == {<<>>, Put(<<>>, <<"1">>, DirNode)}

StartPaths == {<<>>, <<"A">>}

(* --include: nothing, or "*/1". *)
IncludeSets == {{}, {<<"*", "/", "1">>}}

AllOptions ==
    [recursive : Recursive, conflict : ConflictAction, dry_run : BOOLEAN,
     archive : BOOLEAN, excludes : ExcludeSets, includes : IncludeSets,
     path : StartPaths]

(* The command lines of the sessions: --conflict matters only without     *)
(* --dry-run, and the sessions are run without --archive and --include.    *)
Options ==
    {o \in AllOptions :
        /\ o.dry_run => o.conflict = "Skip"
        /\ ~o.archive
        /\ o.includes = {}}

Event(k, e, d, pre, r, reqs, rep) ==
    [kind |-> k, entry |-> e, dest |-> d, pre |-> pre, result |-> r,
     reqs |-> reqs, reply |-> rep]

(* A faulty variant of Extend: the entries are pushed in listing order in every mode. *)
ExtendInOrder(q, entries, mode) == q \o entries

(* queue.extend(entries.into_iter().rev()) under Dfs, queue.extend(entries) *)
(* otherwise.                                                               *)
(* A faulty variant of Extend: the entries are pushed twice. *)
ExtendTwice(q, entries, mode) ==
    IF mode = "Dfs" THEN q \o Reverse(entries) \o Reverse(entries)
    ELSE q \o entries \o entries

Extend(q, entries, mode) ==
    IF mode = "Dfs" THEN q \o Reverse(entries) ELSE q \o entries

(* A faulty variant of Pop: the queue is popped from the back in every mode. *)
PopBack(q, mode) == [entry |-> Last(q), rest |-> Front(q)]

(* queue.pop_back() under Dfs, queue.pop_front() otherwise. *)
Pop(q, mode) ==
    IF mode = "Dfs" THEN [entry |-> Last(q), rest |-> Front(q)]
    ELSE [entry |-> Head(q), rest |-> Tail(q)]

PopEntry(q, mode) == Pop(q, mode).entry

PopRest(q, mode) == Pop(q, mode).rest

(* A faulty variant of AfterTransfer: the Err of download_entry is propagated by      *)
(* main.                                                                   *)
AfterTransferPropagates(result) ==
    IF result = "Panic" THEN "panicked" ELSE IF result = "Err" THEN "aborted" ELSE "loop"

(* What main does with the outcome of download_entry: Ok and Err are       *)
(* printed and the loop goes on; a panic unwinds main.                     *)
AfterTransfer(result) == IF result = "Panic" THEN "panicked" ELSE "loop"

(* A faulty variant of Excluded: the exclude patterns are applied to files only. *)
ExcludedFilesOnly(o, e) == ~e.dir /\ \E p \in o.excludes : matches_path(p, e.path)

Excluded(o, e) == \E p \in o.excludes : matches_path(p, e.path)

(* The destination main computes for a popped entry. *)
MainDest(o, e) == strip_prefix(e.path, o.path)

Init ==
    /\ pc = "start"
    /\ opt \in Options
    /\ queue = <<>>
    /\ fs \in OutputStates
    /\ tree = <<>>
    /\ log = <<>>
    /\ listed = <<>>
    /\ faults = 0
    /\ run = 1
    /\ prev = [pc |-> "none", log |-> <<>>]
    /\ url = DirectoryUrl
    /\ link = from_url(url)
    /\ dirent_list = <<>>
    /\ decoded = NotDecoded

(* client.entries(link.token(), path.as_ref())? fails: main returns Err. *)
SeedFail ==
    /\ pc = "start"
    /\ faults < MaxFaults
    /\ pc' = "aborted"
    /\ listed' = Append(listed, opt.path)
    /\ faults' = faults + 1
    /\ UNCHANGED <<opt, queue, fs, tree, log, run, prev, url, link, dirent_list, decoded>>

(* The queue is seeded with the entries of the start directory. *)
Seed ==
    /\ pc = "start"
    /\ \E l \in Listings(tree, opt.path, opt.path) :
          /\ tree' = Put(tree, opt.path, l)
          /\ queue' = Extend(queue, l, opt.recursive)
    /\ pc' = "loop"
    /\ listed' = Append(listed, opt.path)
    /\ UNCHANGED <<opt, fs, log, faults, run, prev, url, link, dirent_list, decoded>>

Popping == pc = "loop" /\ queue # <<>>

Popped == PopEntry(queue, opt.recursive)

Plain(k) ==
    Event(k, Popped, MainDest(opt, Popped), Absent, "none", <<>>, NoReply)

(* An entry matching an exclude pattern: continue. *)
IterExcluded ==
    /\ Popping
    /\ StripOk(Popped.path, opt.path)
    /\ Excluded(opt, Popped)
    /\ queue' = PopRest(queue, opt.recursive)
    /\ log' = Append(log, Plain("excluded"))
    /\ UNCHANGED <<pc, opt, fs, tree, listed, faults, run, prev, url, link, dirent_list, decoded>>

(* A file entry under --dry-run: its download URL is printed. *)
IterFileDry ==
    /\ Popping
    /\ StripOk(Popped.path, opt.path)
    /\ ~Excluded(opt, Popped)
    /\ ~Popped.dir
    /\ opt.dry_run
    /\ queue' = PopRest(queue, opt.recursive)
    /\ log' = Append(log, Plain("dryrun"))
    /\ UNCHANGED <<pc, opt, fs, tree, listed, faults, run, prev, url, link, dirent_list, decoded>>

(* A file entry: downloader.download_entry, whose Err is printed and whose *)
(* panic ends the process.                                                 *)
IterFileTransfer ==
    /\ Popping
    /\ StripOk(Popped.path, opt.path)
    /\ ~Excluded(opt, Popped)
    /\ ~Popped.dir
    /\ ~opt.dry_run
    /\ LET reqs == Requests(Popped, opt, fs)
       IN  \E rep \in (IF reqs = <<>> THEN {NoReply} ELSE RepliesTo(reqs[1])) :
              LET r == download_entry(Popped, opt, fs, rep)
                  bad == reqs # <<>> /\ IsFault(rep)
              IN  /\ bad => faults < MaxFaults
                  /\ faults' = IF bad THEN faults + 1 ELSE faults
                  /\ fs' = r.fs
                  /\ pc' = AfterTransfer(r.result)
                  /\ log' = Append(log, Event("transfer", Popped, EntryDest(Popped),
                                              NodeAt(fs, EntryDest(Popped)),
                                              r.result, reqs, rep))
    /\ queue' = PopRest(queue, opt.recursive)
    /\ UNCHANGED <<opt, tree, listed, run, prev, url, link, dirent_list, decoded>>

(* A directory entry when --recursive is not given: nothing is done. *)
IterDirSkip ==
    /\ Popping
    /\ StripOk(Popped.path, opt.path)
    /\ ~Excluded(opt, Popped)
    /\ Popped.dir
    /\ opt.recursive = "None"
    /\ queue' = PopRest(queue, opt.recursive)
    /\ log' = Append(log, Plain("skipdir"))
    /\ UNCHANGED <<pc, opt, fs, tree, listed, faults, run, prev, url, link, dirent_list, decoded>>

(* A faulty variant of Expanding: the mode is not looked at. *)
ExpandingAlways ==
    /\ Popping
    /\ StripOk(Popped.path, opt.path)
    /\ ~Excluded(opt, Popped)
    /\ Popped.dir

Expanding ==
    /\ Popping
    /\ StripOk(Popped.path, opt.path)
    /\ ~Excluded(opt, Popped)
    /\ Popped.dir
    /\ opt.recursive # "None"

MkdirOk == opt.dry_run \/ create_dir_ok(fs, MainDest(opt, Popped))

(* A faulty variant of AfterMkdir: the directory is created under         *)
(* --dry-run too.                                                          *)
AfterMkdirAlways == create_dir(fs, MainDest(opt, Popped))

AfterMkdir == IF opt.dry_run THEN fs ELSE create_dir(fs, MainDest(opt, Popped))

(* std::fs::create_dir(dest)? fails: main returns Err. *)
IterDirMkdirFail ==
    /\ Expanding
    /\ ~MkdirOk
    /\ pc' = "aborted"
    /\ queue' = PopRest(queue, opt.recursive)
    /\ log' = Append(log, Plain("mkdirfail"))
    /\ UNCHANGED <<opt, fs, tree, listed, faults, run, prev, url, link, dirent_list, decoded>>

(* client.entries(link.token(), Some(entry.path()))? fails: main returns Err. *)
IterDirListFail ==
    /\ Expanding
    /\ MkdirOk
    /\ faults < MaxFaults
    /\ faults' = faults + 1
    /\ pc' = "aborted"
    /\ fs' = AfterMkdir
    /\ queue' = PopRest(queue, opt.recursive)
    /\ listed' = Append(listed, Popped.path)
    /\ log' = Append(log, Plain("listfail"))
    /\ UNCHANGED <<opt, tree, run, prev, url, link, dirent_list, decoded>>

(* A directory entry under Dfs or Bfs: its entries are pushed. *)
IterDirExpand ==
    /\ Expanding
    /\ MkdirOk
    /\ \E l \in Listings(tree, opt.path, Popped.path) :
          /\ tree' = Put(tree, Popped.path, l)
          /\ queue' = Extend(PopRest(queue, opt.recursive), l, opt.recursive)
    /\ fs' = AfterMkdir
    /\ listed' = Append(listed, Popped.path)
    /\ log' = Append(log, Plain("expand"))
    /\ UNCHANGED <<pc, opt, faults, run, prev, url, link, dirent_list, decoded>>

(* The queue is empty: main returns Ok. *)
Finish ==
    /\ pc = "loop"
    /\ queue = <<>>
    /\ pc' = "done"
    /\ UNCHANGED <<opt, queue, fs, tree, log, listed, faults, run, prev, url, link, dirent_list, decoded>>

(* The program is invoked again with the same arguments on the same output *)
(* directory and the same remote tree.                                     *)
Restart ==
    /\ pc \in {"done", "aborted", "panicked"}
    /\ run < MaxRuns
    /\ run' = run + 1
    /\ pc' = "start"
    /\ queue' = <<>>
    /\ log' = <<>>
    /\ listed' = <<>>
    /\ prev' = [pc |-> pc, log |-> log]
    /\ UNCHANGED <<opt, fs, tree, faults, url, link, dirent_list, decoded>>

Next ==
    \/ SeedFail
    \/ Seed
    \/ IterExcluded
    \/ IterFileDry
    \/ IterFileTransfer
    \/ IterDirSkip
    \/ IterDirMkdirFail
    \/ IterDirListFail
    \/ IterDirExpand
    \/ Finish
    \/ Restart

Spec == Init /\ [][Next]_vars

----------------------------------------------------------------------------
(* One transfer: the link points at a file (link.is_file()), so the queue  *)
(* holds that one entry (queue.push_back(file)) and the output directory   *)
(* holds anything an earlier session or the user left at its destination.  *)
(* A single-file share carries no timestamp (Client::single_file).         *)

FilePath == <<"A", "1">>

LocalFiles == {Node("file", d, "old") : d \in SeqsUpTo(0..MaxSize, MaxLen)}

LocalStates ==
    {<<>>, Put(<<>>, Front(FilePath), DirNode)}
        \cup {Put(Put(<<>>, Front(FilePath), DirNode), FilePath, n) : n \in LocalFiles}

TransferInit ==
    /\ pc = "loop"
    /\ opt \in [recursive : {"None"}, conflict : ConflictAction, dry_run : {FALSE},
                archive : BOOLEAN, excludes : {{}}, includes : {{}}, path : {FilePath}]
    /\ \E sz \in 0..MaxSize, mt \in {"none", TS} :
          queue = <<DirEntryFile(FilePath, sz, mt)>>
    /\ fs \in LocalStates
    /\ tree = <<>>
    /\ log = <<>>
    /\ listed = <<>>
    /\ faults = 0
    /\ run = 1
    /\ prev = [pc |-> "none", log |-> <<>>]
    /\ url = FileUrl
    /\ link = from_url(url)
    /\ dirent_list = <<>>
    /\ decoded = NotDecoded

TransferNext == IterFileTransfer \/ Finish

TransferSpec == TransferInit /\ [][TransferNext]_vars

----------------------------------------------------------------------------
(* Sessions with --include "*/1", without --archive, with the default      *)
(* --conflict.                                                             *)

IncludeInit ==
    /\ pc = "start"
    /\ opt \in {o \in AllOptions :
                    o.includes # {} /\ ~o.archive /\ o.conflict = "Skip"}
    /\ queue = <<>>
    /\ fs \in OutputStates
    /\ tree = <<>>
    /\ log = <<>>
    /\ listed = <<>>
    /\ faults = 0
    /\ run = 1
    /\ prev = [pc |-> "none", log |-> <<>>]
    /\ url = DirectoryUrl
    /\ link = from_url(url)
    /\ dirent_list = <<>>
    /\ decoded = NotDecoded

IncludeSpec == IncludeInit /\ [][Next]_vars

----------------------------------------------------------------------------
(* Parsing the URL: main's first step, ShareLink::from_url(common.url()).  *)
(* A URL that is no share link ends main at once.                          *)

LinkInit ==
    /\ pc = "parse"
    /\ url \in Urls
    /\ link = Unparsed
    /\ opt \in {o \in Options : o.recursive = "None" /\ ~o.dry_run /\ o.conflict = "Skip"
                                  /\ o.excludes = {} /\ o.path = <<>>}
    /\ queue = <<>>
    /\ fs = <<>>
    /\ tree = <<>>
    /\ log = <<>>
    /\ listed = <<>>
    /\ faults = 0
    /\ run = 1
    /\ prev = [pc |-> "none", log |-> <<>>]
    /\ dirent_list = <<>>
    /\ decoded = NotDecoded

ParseLink ==
    /\ pc = "parse"
    /\ link' = from_url(url)
    /\ pc' = IF link' = NoLink THEN "done" ELSE "start"
    /\ UNCHANGED <<opt, queue, fs, tree, log, listed, faults, run, prev, url, dirent_list, decoded>>

LinkNext == ParseLink

LinkSpec == LinkInit /\ [][LinkNext]_vars

----------------------------------------------------------------------------
(* Decoding one reply of the listing endpoint: client.entries.             *)

DecodeInit ==
    /\ pc = "list"
    /\ dirent_list \in SeqsUpTo(Records, MaxRecords)
    /\ decoded = NotDecoded
    /\ opt \in {o \in Options : o.recursive = "None" /\ ~o.dry_run /\ o.conflict = "Skip"
                                  /\ o.excludes = {} /\ o.path = <<>>}
    /\ queue = <<>>
    /\ fs = <<>>
    /\ tree = <<>>
    /\ log = <<>>
    /\ listed = <<>>
    /\ faults = 0
    /\ run = 1
    /\ prev = [pc |-> "none", log |-> <<>>]
    /\ url = DirectoryUrl
    /\ link = from_url(DirectoryUrl)

DecodeEntries ==
    /\ pc = "list"
    /\ decoded' = client_entries(dirent_list)
    /\ pc' = IF decoded'.ok THEN "loop" ELSE "aborted"
    /\ UNCHANGED <<opt, queue, fs, tree, log, listed, faults, run, prev, url, link,
                   dirent_list>>

DecodeNext == DecodeEntries

DecodeSpec == DecodeInit /\ [][DecodeNext]_vars

----------------------------------------------------------------------------
(* What the log says. *)

Acted == log # <<>>

Ev == log[Len(log)]

Transferred == Acted /\ Ev.kind = "transfer"

PoppedSeq == [i \in 1..Len(log) |-> log[i].entry]

PoppedPaths == [i \in 1..Len(log) |-> log[i].entry.path]

(* The directories whose entries were pushed in this invocation. *)
Expanded == {log[i].entry.path : i \in {j \in 1..Len(log) : log[j].kind = "expand"}}

(* The queue was seeded in this invocation. *)
SeededOk == pc # "start" /\ ~(pc = "aborted" /\ log = <<>>)

(* The entries below a listing in left-to-right pre-order, descending into *)
(* the directories that were expanded.                                     *)
RECURSIVE PreOrder(_)
PreOrder(es) ==
    IF es = <<>> THEN <<>>
    ELSE LET e == Head(es)
         IN  <<e>> \o (IF e.dir /\ e.path \in Expanded THEN PreOrder(tree[e.path]) ELSE <<>>)
                   \o PreOrder(Tail(es))

(* The entries below a listing level by level. *)
RECURSIVE ChildrenOf(_)
ChildrenOf(es) ==
    IF es = <<>> THEN <<>>
    ELSE LET e == Head(es)
         IN  (IF e.dir /\ e.path \in Expanded THEN tree[e.path] ELSE <<>>)
                 \o ChildrenOf(Tail(es))

RECURSIVE LevelOrder(_)
LevelOrder(es) == IF es = <<>> THEN <<>> ELSE es \o LevelOrder(ChildrenOf(es))

(* The tree /A with /A/1 (file), /A/2 (directory) and /A/2/x (file). *)
ExampleTree ==
    /\ opt.path = <<"A">>
    /\ DOMAIN tree = {<<"A">>, <<"A", "2">>}
    /\ tree[<<"A">>] = <<DirEntryFile(<<"A", "1">>, MaxSize, TS), DirEntryDir(<<"A", "2">>)>>
    /\ tree[<<"A", "2">>] = <<DirEntryFile(<<"A", "2", "x">>, MaxSize, TS)>>

----------------------------------------------------------------------------
(* C1: under Dfs the entries are popped in left-to-right pre-order: the    *)
(* popped sequence is always an initial part of the pre-order of the tree  *)
(* and is all of it when the loop ends; for the tree /A with 1, 2 and 2/x  *)
(* the order is 1, 2, x.                                                   *)
C1_DfsPreOrder ==
    (opt.recursive = "Dfs" /\ SeededOk) =>
        /\ IsPrefix(PoppedSeq, PreOrder(tree[opt.path]))
        /\ pc = "done" => PoppedSeq = PreOrder(tree[opt.path])
        /\ (pc = "done" /\ ExampleTree /\ opt.excludes = {}) =>
              PoppedPaths = <<<<"A", "1">>, <<"A", "2">>, <<"A", "2", "x">>>>

C1_Witness ==
    /\ opt.recursive = "Dfs"
    /\ pc = "done"
    /\ ExampleTree
    /\ PoppedPaths = <<<<"A", "1">>, <<"A", "2">>, <<"A", "2", "x">>>>

(* C2: under Bfs the entries are popped level by level, the entries of one *)
(* directory in listing order: the popped sequence is always an initial    *)
(* part of the level order of the tree, all of it when the loop ends, and  *)
(* no entry is popped after a deeper one.                                  *)
C2_BfsLevelOrder ==
    (opt.recursive = "Bfs" /\ SeededOk) =>
        /\ IsPrefix(PoppedSeq, LevelOrder(tree[opt.path]))
        /\ pc = "done" => PoppedSeq = LevelOrder(tree[opt.path])
        /\ \A i, j \in 1..Len(log) :
              i < j => Len(log[i].entry.path) <= Len(log[j].entry.path)

C2_Witness ==
    /\ opt.recursive = "Bfs"
    /\ pc = "done"
    /\ PoppedPaths = <<<<"A", "1">>, <<"A", "2">>, <<"A", "1", "x">>>>

(* C3: an entry whose path matches an exclude pattern is only dropped: no  *)
(* iteration transfers, prints or expands it, its listing is never         *)
(* requested, nothing is created for it in the output directory, and no    *)
(* entry below it is in the queue or popped.                               *)
MatchesExclude(e) == \E p \in opt.excludes : GlobMatch(p, PathStr(e.path))

Below(e, x) == Len(x.path) > Len(e.path) /\ IsPrefix(e.path, x.path)

C3_ExcludedDropped ==
    \A d \in DOMAIN tree : \A k \in 1..Len(tree[d]) :
        LET e == tree[d][k]
        IN  MatchesExclude(e) =>
              /\ \A i \in 1..Len(log) : log[i].entry = e => log[i].kind = "excluded"
              /\ \A i \in 1..Len(listed) : listed[i] # e.path
              /\ e.path \notin DOMAIN tree
              /\ strip_prefix(e.path, opt.path) \notin DOMAIN fs
              /\ e.path \notin DOMAIN fs
              /\ \A i \in 1..Len(queue) : ~Below(e, queue[i])
              /\ \A i \in 1..Len(log) : ~Below(e, log[i].entry)

C3_Witness ==
    /\ pc = "done"
    /\ opt.recursive # "None"
    /\ \E i \in 1..Len(log) :
          /\ log[i].kind = "excluded"
          /\ log[i].entry.dir
          /\ i < Len(log)

(* C4: when the listing of a popped directory, or the creation of its      *)
(* local directory, fails, the walk goes on with the entries in the queue. *)
C4_DirFailureConfined ==
    (Acted /\ Ev.kind \in {"listfail", "mkdirfail"} /\ queue # <<>>) => pc = "loop"

(* C5: when download_entry returns an error the loop goes on: the step     *)
(* leaves main in the loop with every other entry still in the queue.      *)
C5_TransferErrorContinues ==
    [][(Len(log') = Len(log) + 1 /\ log'[Len(log')].kind = "transfer"
            /\ log'[Len(log')].result = "Err")
        => (pc' = "loop" /\ queue' = Pop(queue, opt.recursive).rest)]_vars

C5_Witness ==
    /\ pc = "done"
    /\ \E i \in 1..Len(log) :
          /\ log[i].kind = "transfer"
          /\ log[i].result = "Err"
          /\ i < Len(log)

(* C6: under Continue with a local file shorter than the remote size, a    *)
(* reply to the range request that is not partial content is an error for  *)
(* that entry: nothing is appended and the session goes on.                *)
C6_NonPartialIsEntryError ==
    (/\ Transferred
     /\ opt.conflict = "Continue"
     /\ Ev.pre.kind = "file"
     /\ Len(Ev.pre.data) < Ev.entry.size
     /\ Ev.reply.status # "206")
        => /\ Ev.result = "Err"
           /\ NodeAt(fs, Ev.dest).data = Ev.pre.data
           /\ pc \in {"loop", "done"}

(* C7: under Skip an existing local file gives Skipped, no request and     *)
(* the same contents as before, whatever its length.                       *)
C7_SkipExisting ==
    (Transferred /\ opt.conflict = "Skip" /\ Ev.pre.kind = "file") =>
        /\ Ev.result = "Skipped"
        /\ Ev.reqs = <<>>
        /\ NodeAt(fs, Ev.dest).kind = "file"
        /\ NodeAt(fs, Ev.dest).data = Ev.pre.data

C7_Witness ==
    /\ Transferred
    /\ opt.conflict = "Skip"
    /\ Ev.pre.kind = "file"
    /\ Len(Ev.pre.data) < Ev.entry.size
    /\ Ev.pre.data # <<>>
    /\ Ev.result = "Skipped"

(* C8: under Continue with a local file of length L < R the request is for *)
(* the bytes L..R-1; a partial-content reply is appended after the         *)
(* existing bytes and gives Continued: R-L bytes are appended and the      *)
(* length becomes R.  Nothing but appending ever happens to the file.      *)
C8_ContinueAppendsRange ==
    (/\ Transferred
     /\ opt.conflict = "Continue"
     /\ Ev.pre.kind = "file"
     /\ Len(Ev.pre.data) < Ev.entry.size)
        => LET L == Len(Ev.pre.data)
               R == Ev.entry.size
               after == NodeAt(fs, Ev.dest).data
           IN  /\ Ev.reqs = <<[kind |-> "range", path |-> Ev.entry.path,
                               first |-> L, last |-> R - 1]>>
               /\ IsPrefix(Ev.pre.data, after)
               /\ Ev.reply = Reply("206", FALSE, 0) =>
                     /\ Ev.result = "Continued"
                     /\ after = Ev.pre.data \o [i \in 1..(R - L) |-> L + i]
                     /\ Len(after) = R
               /\ Ev.result = "Continued" => Ev.reply = Reply("206", FALSE, 0)

C8_Witness ==
    /\ Transferred
    /\ opt.conflict = "Continue"
    /\ Ev.pre.kind = "file"
    /\ Len(Ev.pre.data) = 1
    /\ Ev.entry.size = MaxSize
    /\ Ev.result = "Continued"
    /\ Len(NodeAt(fs, Ev.dest).data) = MaxSize

(* C9: under Continue with a local file of length L >= R the result is     *)
(* Skipped, no request is made and the file keeps its contents and length. *)
C9_ContinueComplete ==
    (/\ Transferred
     /\ opt.conflict = "Continue"
     /\ Ev.pre.kind = "file"
     /\ Len(Ev.pre.data) >= Ev.entry.size)
        => /\ Ev.result = "Skipped"
           /\ Ev.reqs = <<>>
           /\ NodeAt(fs, Ev.dest).kind = "file"
           /\ NodeAt(fs, Ev.dest).data = Ev.pre.data

C9_Witness ==
    /\ Transferred
    /\ opt.conflict = "Continue"
    /\ Ev.pre.kind = "file"
    /\ Len(Ev.pre.data) > Ev.entry.size
    /\ Ev.result = "Skipped"

(* C10: under Overwrite an existing local file is truncated and written    *)
(* anew by a full transfer: one plain request is made, the old bytes are   *)
(* gone whatever the reply, and a complete reply gives Overwritten with    *)
(* the local contents equal to the remote contents.                        *)
C10_OverwriteRewrites ==
    (Transferred /\ opt.conflict = "Overwrite" /\ Ev.pre.kind = "file") =>
        LET after == NodeAt(fs, Ev.dest).data
            remote == [i \in 1..Ev.entry.size |-> i]
        IN  /\ Ev.reqs = <<[kind |-> "get", path |-> Ev.entry.path,
                            first |-> 0, last |-> 0]>>
            /\ Ev.result \in {"Overwritten", "Err"}
            /\ IsPrefix(after, remote)
            /\ Ev.result = "Overwritten" => after = remote
            /\ Ev.reply = Reply("200", FALSE, 0) => Ev.result = "Overwritten"

C10_Witness ==
    /\ Transferred
    /\ opt.conflict = "Overwrite"
    /\ Ev.pre.kind = "file"
    /\ Len(Ev.pre.data) > Ev.entry.size
    /\ ~IsPrefix([i \in 1..Ev.entry.size |-> i], Ev.pre.data)
    /\ Ev.entry.size > 0
    /\ Ev.result = "Overwritten"

(* C11: when nothing exists at the destination, under every conflict      *)
(* policy the missing parent directories and the file are created and one  *)
(* plain request for the whole file is made; the result is Complete unless *)
(* the transfer itself fails, and then the local contents equal the remote *)
(* contents.  The policy makes no difference.                              *)
C11_AbsentIsCompleted ==
    (Transferred /\ Ev.pre.kind = "absent") =>
        LET after == NodeAt(fs, Ev.dest)
            remote == [i \in 1..Ev.entry.size |-> i]
        IN  /\ Ev.reqs = <<[kind |-> "get", path |-> Ev.entry.path,
                            first |-> 0, last |-> 0]>>
            /\ \A q \in Prefixes(Front(Ev.dest)) : NodeAt(fs, q).kind = "dir"
            /\ after.kind = "file"
            /\ Ev.result \in {"Complete", "Err"}
            /\ IsPrefix(after.data, remote)
            /\ Ev.result = "Complete" => after.data = remote
            /\ Ev.reply = Reply("200", FALSE, 0) => Ev.result = "Complete"

C11_Witness ==
    /\ Transferred
    /\ Ev.pre.kind = "absent"
    /\ opt.conflict = "Check"
    /\ Ev.entry.size = MaxSize
    /\ Ev.result = "Complete"
    /\ NodeAt(fs, Front(Ev.dest)).kind = "dir"
    /\ Len(NodeAt(fs, Ev.dest).data) = MaxSize

(* C14: after a transfer that gave Complete, Overwritten or Continued the  *)
(* modification time of the local file is the entry's timestamp when       *)
(* --archive is given and the entry has a timestamp; otherwise it is not   *)
(* the entry's timestamp but what writing the file left.                   *)
C14_ArchiveSetsMtime ==
    (Transferred /\ Ev.result \in {"Complete", "Overwritten", "Continued"}) =>
        LET after == NodeAt(fs, Ev.dest)
        IN  IF opt.archive /\ Ev.entry.mtime # "none"
            THEN after.mtime = Ev.entry.mtime
            ELSE after.mtime \in {"now", "old"}

C14_Witness ==
    /\ Transferred
    /\ Ev.result = "Continued"
    /\ opt.archive
    /\ Ev.entry.mtime = TS
    /\ Ev.pre.mtime = "old"
    /\ NodeAt(fs, Ev.dest).mtime = TS

(* C12: when a first invocation with Skip ran to its end without any      *)
(* failure, the second invocation on the same output directory is not      *)
(* ended early and every file it processes is Skipped.                     *)
C12_SecondRunAllSkipped ==
    (/\ run = 2
     /\ prev.pc = "done"
     /\ opt.conflict = "Skip"
     /\ ~opt.dry_run
     /\ faults = 0
     /\ \A i \in 1..Len(prev.log) :
           prev.log[i].kind = "transfer" => prev.log[i].result = "Complete")
        => /\ pc # "aborted"
           /\ \A i \in 1..Len(log) :
                 log[i].kind = "transfer" => log[i].result = "Skipped"

(* The earlier invocation failed in the full transfer of entry e to a      *)
(* destination where nothing was.                                          *)
LeftPartial(e) ==
    \E i \in 1..Len(prev.log) :
        /\ prev.log[i].kind = "transfer"
        /\ prev.log[i].entry = e
        /\ prev.log[i].pre.kind = "absent"
        /\ prev.log[i].result = "Err"
        /\ prev.log[i].reqs # <<>>

(* C13: when an invocation failed in the middle of the full transfer of a  *)
(* file, the file holds a proper prefix of the remote contents, of length  *)
(* L < R; the next invocation with Continue asks for the bytes L..R-1 and  *)
(* a partial-content reply gives Continued with the local file equal to    *)
(* the remote contents, of length R.                                       *)
C13_ContinueAfterInterrupt ==
    (/\ run > 1
     /\ Transferred
     /\ opt.conflict = "Continue"
     /\ LeftPartial(Ev.entry)
     /\ Ev.pre.kind = "file")
        => LET L == Len(Ev.pre.data)
               R == Ev.entry.size
               remote == [i \in 1..R |-> i]
               after == NodeAt(fs, Ev.dest).data
           IN  /\ L < R
               /\ IsPrefix(Ev.pre.data, remote)
               /\ Ev.reqs = <<[kind |-> "range", path |-> Ev.entry.path,
                               first |-> L, last |-> R - 1]>>
               /\ Ev.reply = Reply("206", FALSE, 0) =>
                     /\ Ev.result = "Continued"
                     /\ after = remote
                     /\ Len(after) = R

C13_Witness ==
    /\ run > 1
    /\ Transferred
    /\ opt.conflict = "Continue"
    /\ LeftPartial(Ev.entry)
    /\ Len(Ev.pre.data) = 1
    /\ Ev.entry.size = MaxSize
    /\ Ev.result = "Continued"
    /\ NodeAt(fs, Ev.dest).data = [i \in 1..MaxSize |-> i]

(* C15: when include patterns are given, every file that is transferred    *)
(* matches one of them.                                                    *)
C15_IncludeApplied ==
    (Transferred /\ opt.includes # {}) =>
        \E p \in opt.includes : GlobMatch(p, PathStr(Ev.entry.path))

(* What holds of an invocation without --recursive. *)
NoneKeepsToStart ==
    /\ Len(listed) <= 1
    /\ \A i \in 1..Len(listed) : listed[i] = opt.path
    /\ \A i \in 1..Len(log) :
          /\ log[i].kind \notin {"expand", "listfail", "mkdirfail"}
          /\ log[i].entry.dir => log[i].kind \in {"skipdir", "excluded"}
          /\ log[i].kind \in {"transfer", "dryrun"} =>
                /\ ~log[i].entry.dir
                /\ Front(log[i].entry.path) = opt.path
                /\ \E k \in 1..Len(tree[opt.path]) : tree[opt.path][k] = log[i].entry

(* C16: without --recursive no directory entry is expanded: only the       *)
(* listing of the start directory is requested, once; the step that pops a *)
(* directory entry changes nothing in the output directory and requests    *)
(* nothing; and the files transferred are files of the start listing.      *)
C16_NoneNeverExpands ==
    [][opt.recursive = "None" =>
          /\ NoneKeepsToStart'
          /\ (Popping /\ Popped.dir) =>
                (fs' = fs /\ listed' = listed /\ tree' = tree /\ faults' = faults)]_vars

C16_Witness ==
    /\ opt.recursive = "None"
    /\ pc = "done"
    /\ listed = <<opt.path>>
    /\ \E i, j \in 1..Len(log) :
          /\ log[i].kind = "skipdir"
          /\ log[j].kind = "transfer"
          /\ log[j].result = "Complete"
          /\ i < j

(* C17: a file is written at the path of the entry relative to the start   *)
(* path, below the output directory.                                       *)
C17_DestRelativeToBase ==
    Transferred => Ev.dest = MainDest(opt, Ev.entry)

(* The order in which the entries are popped. *)
WalkOrder ==
    IF opt.recursive = "Bfs" THEN LevelOrder(tree[opt.path]) ELSE PreOrder(tree[opt.path])

(* What holds of an invocation with --dry-run. *)
DryRunOnlyPrints ==
    /\ \A i \in 1..Len(log) :
          /\ log[i].kind # "transfer"
          /\ log[i].reqs = <<>>
          /\ ~log[i].entry.dir => log[i].kind \in {"dryrun", "excluded"}
    /\ SeededOk =>
          /\ IsPrefix(PoppedSeq, WalkOrder)
          /\ pc = "done" => PoppedSeq = WalkOrder

(* C20: with --dry-run no step changes the output directory, no file is    *)
(* transferred and no request for a file is made; each file is only        *)
(* printed, and the entries are popped in the order of the mode, all of    *)
(* them when the loop ends.                                                *)
C20_DryRunNoEffect ==
    [][opt.dry_run => (fs' = fs /\ DryRunOnlyPrints')]_vars

C20_Witness ==
    /\ opt.dry_run
    /\ opt.recursive = "Dfs"
    /\ pc = "done"
    /\ ExampleTree
    /\ fs = <<>>
    /\ PoppedPaths = <<<<"A", "1">>, <<"A", "2">>, <<"A", "2", "x">>>>
    /\ \E i \in 1..Len(log) : log[i].kind = "dryrun"

(* The URL has been parsed. *)
Parsed == link # Unparsed

IsHex(t) == t # <<>> /\ \A i \in 1..Len(t) : t[i] \in HexChars

(* The path of the URL is /d/{hex-token}, /d/{hex-token}/files or          *)
(* /f/{hex-token}, with or without a "/" at its end.                       *)
AcceptedShape(u) ==
    /\ Len(u.segs) \in {2, 3}
    /\ IsHex(u.segs[2])
    /\ \/ Len(u.segs) = 2 /\ u.segs[1] \in {<<"d">>, <<"f">>}
       \/ Len(u.segs) = 3 /\ u.segs[1] = <<"d">>
                          /\ u.segs[3] = <<"f", "i", "l", "e", "s">>

(* C18: for every hex token t, with or without a "/" at the end of the     *)
(* path: /d/t gives a Directory link with token t that is no file, /d/t/files *)
(* gives a Directory link with token t that is a file, /f/t gives a        *)
(* SingleFile link with token t; the path of a Directory link is the value *)
(* of p, /a/b or /a/b.txt, and is missing when there is no p.              *)
C18_RecognizedShapes ==
    (Parsed /\ AcceptedShape(url)) =>
        LET t == url.segs[2]
        IN  /\ link.token = t
            /\ url.segs[1] = <<"f">> =>
                  link = ShareLink("SingleFile", t, "none", FALSE)
            /\ url.segs[1] = <<"d">> =>
                  /\ link.kind = "Directory"
                  /\ link.file = (Len(url.segs) = 3)
                  /\ url.query = <<>> => link.path = "none"
                  /\ url.query = <<<<"p", "/a/b">>>> => link.path = "/a/b"
                  /\ url.query = <<<<"p", "/a/b.txt">>>> => link.path = "/a/b.txt"

C18_Witness ==
    /\ Parsed
    /\ url.segs = <<<<"d">>, <<"a", "b">>, <<"f", "i", "l", "e", "s">>>>
    /\ url.slash
    /\ url.query = <<<<"p", "/a/b.txt">>>>
    /\ link = ShareLink("Directory", <<"a", "b">>, "/a/b.txt", TRUE)

(* C19: a URL whose path is not of an accepted shape gives no link, so the *)
(* token of a link is always a whole segment of the path.                  *)
C19_OtherPathsUnrecognized ==
    (Parsed /\ link # NoLink) =>
        /\ AcceptedShape(url)
        /\ link.token = url.segs[2]

(* C21: when the start listing and every listing of a popped directory    *)
(* were fetched, the loop ends with main returning Ok and an empty queue,  *)
(* and every entry of the walk has been popped, once.                      *)
C21_LoopDrainsQueue ==
    (/\ SeededOk
     /\ pc \notin {"start", "loop"}
     /\ \A i \in 1..Len(log) : log[i].kind # "listfail")
        => /\ pc = "done"
           /\ queue = <<>>
           /\ PoppedSeq = WalkOrder
           /\ \A i, j \in 1..Len(log) : i # j => log[i].entry.path # log[j].entry.path

(* C22: in one invocation no path is listed twice: the first listing is    *)
(* that of the start path, and every later one is that of a directory      *)
(* popped and expanded under Dfs or Bfs.                                   *)
C22_ListedAtMostOnce ==
    /\ \A i, j \in 1..Len(listed) : i # j => listed[i] # listed[j]
    /\ listed # <<>> => listed[1] = opt.path
    /\ \A i \in 2..Len(listed) :
          /\ opt.recursive # "None"
          /\ Cardinality({j \in 1..Len(log) :
                 log[j].kind \in {"expand", "listfail"} /\ log[j].entry.path = listed[i]}) = 1

C22_Witness ==
    /\ pc = "done"
    /\ opt.recursive = "Bfs"
    /\ Len(listed) = MaxEntries
    /\ \E i \in 1..Len(log) : log[i].kind = "expand" /\ Len(log[i].entry.path) > Len(opt.path) + 1

(* C23: for a file whose destination exists, under every policy the        *)
(* transfer gives Skipped, Overwritten, Continued or Complete, or an error *)
(* for that entry, and the invocation goes on.  (A reply to a range        *)
(* request that is not partial content is left aside: see C6.)             *)
C23_EveryPolicyGivesOutcome ==
    (/\ Transferred
     /\ Ev.pre.kind = "file"
     /\ ~(Ev.reqs # <<>> /\ Ev.reqs[1].kind = "range" /\ Ev.reply.status = "200"))
        => /\ Ev.result \in {"Skipped", "Overwritten", "Continued", "Complete", "Err"}
           /\ pc # "panicked"

(* C25: a transfer that gives Skipped leaves the local file as it was, its *)
(* contents and its modification time.                                     *)
C25_SkippedChangesNothing ==
    (Transferred /\ Ev.result = "Skipped") => NodeAt(fs, Ev.dest) = Ev.pre

(* The record has no known shape: it lacks the flag, or the fields that   *)
(* go with its flag.                                                       *)
NoKnownShape(r) ==
    \/ r.is_dir = "none"
    \/ r.is_dir = "true" /\ ~r.folder
    \/ r.is_dir = "false" /\ ~r.file

(* C24: a listing is decoded by the is_dir flags of its records: a record  *)
(* becomes a directory entry exactly when its flag is true and a file      *)
(* entry exactly when it is false, and decoding fails when a record has no *)
(* known shape.                                                            *)
C24_ClassifiedByFlag ==
    decoded.done =>
        /\ decoded.ok =>
              /\ Len(decoded.list) = Len(dirent_list)
              /\ \A i \in 1..Len(dirent_list) :
                    decoded.list[i].dir = (dirent_list[i].is_dir = "true")
        /\ (\E i \in 1..Len(dirent_list) : NoKnownShape(dirent_list[i])) => ~decoded.ok

====
